---- MODULE Spec2Model ----
(***************************************************************************)
(* object-hash-map: ObjectMap (bucketed hash table with an insertion-order *)
(* chain keyed by logical key), ObjectSet, ImmutableMap and ImmutableSet.  *)
(*                                                                         *)
(* JavaScript values are modelled as integers:                            *)
(*   - an object key {id: i} is 10*i + inst, inst telling apart two        *)
(*     instances of the same shape (equal by `equals`, not identical);     *)
(*   - null is 0, undefined is -1; the values stored are objects too.      *)
(* Objects live in a heap; program variables (slots) hold references.      *)
(***************************************************************************)
EXTENDS Integers, Sequences, FiniteSets, TLC

VARIABLES heap, slots, lastOp, abs, hist, mode, args

vars == <<heap, slots, lastOp, abs, hist, mode, args>>

\* ------------------------------------------------------------------ bounds
MaxKey == 2
MaxCapacity == 4

\* ------------------------------------------------------------- JS values
null == 0
undefined == -1

KeyOf(id, inst) == 10 * id + inst
IdOf(k) == k \div 10

\* Keys offered to the single-map specification: one instance per id, and a
\* second instance of id 1.
MapKeys == {KeyOf(i, 0) : i \in 1..MaxKey} \cup {KeyOf(1, 1)}
\* The values stored: two objects that are not equal to each other or to a key.
Vals == {KeyOf(8, 0), KeyOf(9, 0)}

\* options.equals: structural equality of {id: i} objects (and of null).
equals(a, b) == IdOf(a) = IdOf(b)

\* options.hash: a hash function consistent with equals; it collides for
\* small capacities and is negative for some keys.
userHash(k) ==
    LET i == IdOf(k)
    IN IF i % 3 = 0 THEN 0 - (i + 1) ELSE 2 * i - 1

\* JavaScript's remainder: the sign of the dividend (-0 is index 0).
jsRem(a, b) == IF a >= 0 THEN a % b ELSE 0 - ((0 - a) % b)

\* ------------------------------------------------------------ ObjectMap
\* new Array(capacity): every bucket undefined (modelled as empty); a
\* negative index is an ordinary property of the array object.
newArray(capacity) == [i \in (1 - capacity)..(capacity - 1) |-> <<>>]

\* this.hash(key, capacity)
hash(key, capacity) == jsRem(userHash(key), capacity)

\* Index in a bucket of the first entry whose key equals key; 0 if none.
bucketIndex(bucket, key) ==
    IF \E i \in 1..Len(bucket) : equals(key, bucket[i].key)
    THEN CHOOSE i \in 1..Len(bucket) :
            /\ equals(key, bucket[i].key)
            /\ \A j \in 1..(i - 1) : ~equals(key, bucket[j].key)
    ELSE 0

\* getNode(key) !== undefined
hasNode(m, key) == bucketIndex(m.buckets[hash(key, m.capacity)], key) # 0

\* getNode(key), when it is defined
getNode(m, key) ==
    LET b == m.buckets[hash(key, m.capacity)]
    IN b[bucketIndex(b, key)]

\* Assignment to a field of the node object getNode(key) returns.
withNode(m, key, node) ==
    LET h == hash(key, m.capacity)
        b == m.buckets[h]
    IN [m EXCEPT !.buckets[h][bucketIndex(b, key)] = node]

get(m, key) == IF hasNode(m, key) THEN getNode(m, key).value ELSE undefined

\* has(key): bucket.some(...) over the key's bucket.
has(m, key) ==
    LET bucket == m.buckets[hash(key, m.capacity)]
    IN \E i \in 1..Len(bucket) : equals(key, bucket[i].key)

RECURSIVE sumLens(_, _)
sumLens(buckets, idx) ==
    IF idx = {} THEN 0
    ELSE LET i == CHOOSE x \in idx : TRUE
         IN Len(buckets[i]) + sumLens(buckets, idx \ {i})

\* Number of entries stored in the bucket array.
stored(m) == sumLens(m.buckets, DOMAIN m.buckets)

\* nodes(): the walk from first along next. It ends normally at null, with a
\* TypeError where a link names a key getNode does not find (the consumer
\* reads a field of undefined), and never when the chain has a cycle.
RECURSIVE walk(_, _, _, _)
walk(m, k, fuel, acc) ==
    IF k = null THEN [keys |-> acc, status |-> "ok"]
    ELSE IF ~hasNode(m, k) THEN [keys |-> acc, status |-> "TypeError"]
    ELSE IF fuel = 0 THEN [keys |-> acc, status |-> "diverges"]
    ELSE walk(m, getNode(m, k).next, fuel - 1, Append(acc, getNode(m, k).key))

nodes(m) == walk(m, m.first, stored(m), <<>>)

keys(m) == nodes(m)

entries(m) ==
    LET w == nodes(m)
    IN [items |-> [i \in 1..Len(w.keys) |->
                      <<w.keys[i], getNode(m, w.keys[i]).value>>],
        status |-> w.status]

values(m) ==
    LET w == nodes(m)
    IN [items |-> [i \in 1..Len(w.keys) |-> getNode(m, w.keys[i]).value],
        status |-> w.status]

\* resize() placing each node by the capacity the map had before it.
RECURSIVE rehashByOldCapacity(_, _, _, _, _)
rehashByOldCapacity(m, ks, i, capacity, buckets) ==
    IF i > Len(ks) THEN buckets
    ELSE LET h == hash(ks[i], m.capacity)
         IN rehashByOldCapacity(m, ks, i + 1, capacity,
                   [buckets EXCEPT ![h] = Append(@, getNode(m, ks[i]))])

\* The loop of resize(): each node of the walk is pushed into the bucket of
\* its key under the new capacity.
RECURSIVE rehash(_, _, _, _, _)
rehash(m, ks, i, capacity, buckets) ==
    IF i > Len(ks) THEN buckets
    ELSE LET h == hash(ks[i], capacity)
         IN rehash(m, ks, i + 1, capacity,
                   [buckets EXCEPT ![h] = Append(@, getNode(m, ks[i]))])

\* resize(capacity): result [m, err]; the bucket array is replaced only when
\* the walk over nodes() completes.
resize(m, capacity) ==
    LET w == nodes(m)
    IN IF w.status # "ok" THEN [m |-> m, err |-> w.status]
       ELSE [m |-> [m EXCEPT !.buckets = rehash(m, w.keys, 1, capacity, newArray(capacity)),
                             !.capacity = capacity],
             err |-> "none"]

\* size / capacity > loadFactor, the load factor being lfNum / lfDen.
overloaded(m) == m.size * m.lfDen > m.capacity * m.lfNum

\* The tail of set(): link the new key after this.last, then move last/first.
setLink(m, key) ==
    IF m.last # null /\ ~hasNode(m, m.last)
    THEN [m |-> m, ret |-> undefined, err |-> "TypeError"]
    ELSE LET m1 == IF m.last # null
                   THEN withNode(m, m.last, [getNode(m, m.last) EXCEPT !.next = key])
                   ELSE m
             m2 == [m1 EXCEPT !.last = key]
             m3 == IF m2.first = null THEN [m2 EXCEPT !.first = key] ELSE m2
         IN [m |-> m3, ret |-> "this", err |-> "none"]

\* set() from the resize check on: r is the map after the resize, if any.
setResized(r, key) ==
    IF r.err # "none" THEN [m |-> r.m, ret |-> undefined, err |-> r.err]
    ELSE setLink(r.m, key)

\* set() once the node is pushed and counted: resize if needed, then link.
setPushed(m1, key) ==
    setResized(IF overloaded(m1) THEN resize(m1, m1.capacity * 2)
               ELSE [m |-> m1, err |-> "none"], key)

\* The insertion branch of set(): push, count, resize if needed, link.
setInsert(m, key, value) ==
    setPushed([m EXCEPT !.buckets[hash(key, m.capacity)] =
                  Append(@, [key |-> key, value |-> value, prev |-> m.last, next |-> null]),
                        !.size = @ + 1], key)

\* set() without the early return of the replace branch: the value is
\* replaced and the key is inserted once more.
setFallsThrough(m, key, value) ==
    LET h == hash(key, m.capacity)
        i == bucketIndex(m.buckets[h], key)
    IN IF i # 0
       THEN setInsert([m EXCEPT !.buckets[h][i].value = value], key, value)
       ELSE setInsert(m, key, value)

\* set(key, value): result [m, ret, err].
set(m, key, value) ==
    LET h == hash(key, m.capacity)
        i == bucketIndex(m.buckets[h], key)
    IN IF i # 0
       THEN [m |-> [m EXCEPT !.buckets[h][i].value = value], ret |-> "this", err |-> "none"]
       ELSE setInsert(m, key, value)

\* The body of delete() once the entry is found at bucket[i].
deleteFound(m, key, h, i) ==
    LET node == m.buckets[h][i]
        b    == m.buckets[h]
        m1   == [m EXCEPT !.buckets[h] = SubSeq(b, 1, i - 1) \o SubSeq(b, i + 1, Len(b)),
                          !.size = @ - 1]
    IN IF node.prev # null /\ ~hasNode(m1, node.prev)
       THEN [m |-> m1, ret |-> undefined, err |-> "TypeError"]
       ELSE LET m2 == IF node.prev # null
                      THEN withNode(m1, node.prev,
                                    [getNode(m1, node.prev) EXCEPT !.next = node.next])
                      ELSE m1
            IN IF node.next # null /\ ~hasNode(m2, node.next)
               THEN [m |-> m2, ret |-> undefined, err |-> "TypeError"]
               ELSE LET m3 == IF node.next # null
                              THEN withNode(m2, node.next,
                                            [getNode(m2, node.next) EXCEPT !.prev = node.prev])
                              ELSE m2
                        m4 == IF equals(m3.first, key) THEN [m3 EXCEPT !.first = node.next] ELSE m3
                        m5 == IF equals(m4.last, key) THEN [m4 EXCEPT !.last = node.prev] ELSE m4
                    IN [m |-> m5, ret |-> TRUE, err |-> "none"]

\* delete() counting down before it looks for the key.
deleteCountsFirst(m, key) ==
    LET h == hash(key, m.capacity)
        i == bucketIndex(m.buckets[h], key)
    IN IF i = 0 THEN [m |-> [m EXCEPT !.size = @ - 1], ret |-> FALSE, err |-> "none"]
       ELSE deleteFound(m, key, h, i)

\* delete(key): result [m, ret, err].
delete(m, key) ==
    LET h == hash(key, m.capacity)
        i == bucketIndex(m.buckets[h], key)
    IN IF i = 0 THEN [m |-> m, ret |-> FALSE, err |-> "none"]
       ELSE deleteFound(m, key, h, i)

\* clear() forgetting the head and the tail of the chain.
clearKeepsLinks(m) ==
    [m |-> [m EXCEPT !.buckets = newArray(m.capacity), !.size = 0],
     ret |-> undefined, err |-> "none"]

\* clear()
clear(m) ==
    [m |-> [m EXCEPT !.buckets = newArray(m.capacity), !.size = 0,
                     !.first = null, !.last = null],
     ret |-> undefined, err |-> "none"]

\* pop(key): get, then delete, then return the value.
pop(m, key) ==
    LET value == get(m, key)
        d == delete(m, key)
    IN IF d.err # "none" THEN d ELSE [m |-> d.m, ret |-> value, err |-> "none"]

\* update(key, updater): set(key, updater(get(key), key)). The updater used
\* swaps the two values and gives the first one for undefined.
updater(value, key) == IF value = KeyOf(8, 0) THEN KeyOf(9, 0) ELSE KeyOf(8, 0)

update(m, key) == set(m, key, updater(get(m, key), key))

\* compareFn([a.key, a.value], [b.key, b.value]) for the comparators used.
\* "none" is sort() without compareFn: Array.prototype.sort compares the
\* nodes' string renderings, which are all "[object Object]".
Comparators == {"none", "byKey", "byValue"}

compare(cmp, a, b) ==
    CASE cmp = "byKey" -> a[1] - b[1]
      [] cmp = "byValue" -> a[2] - b[2]
      [] OTHER -> 0

\* Array.prototype.sort is stable: x goes before the first element that
\* compares greater than it.
sortInsert(cmp, sorted, x) ==
    LET after == {i \in 1..Len(sorted) : compare(cmp, sorted[i], x) > 0}
        pos == IF after = {} THEN Len(sorted) + 1
               ELSE CHOOSE i \in after : \A j \in after : i <= j
    IN SubSeq(sorted, 1, pos - 1) \o <<x>> \o SubSeq(sorted, pos, Len(sorted))

RECURSIVE arraySort(_, _, _, _)
arraySort(cmp, items, i, acc) ==
    IF i > Len(items) THEN acc
    ELSE arraySort(cmp, items, i + 1, sortInsert(cmp, acc, items[i]))

\* The loop of sort() rewriting prev/next of nodes[i], i = 1..n.
RECURSIVE relink(_, _, _)
relink(m, sorted, i) ==
    IF i > Len(sorted) THEN m
    ELSE LET k == sorted[i][1]
             node == [getNode(m, k) EXCEPT
                        !.prev = IF i = 1 THEN null ELSE sorted[i - 1][1],
                        !.next = IF i = Len(sorted) THEN null ELSE sorted[i + 1][1]]
         IN relink(withNode(m, k, node), sorted, i + 1)

\* sort(compareFn): result [m, ret, err]. nodes[0].key of an empty array is a
\* TypeError, raised before anything is written.
sort(m, cmp) ==
    LET e == entries(m)
        sorted == arraySort(cmp, e.items, 1, <<>>)
    IN IF e.status # "ok" THEN [m |-> m, ret |-> undefined, err |-> e.status]
       ELSE IF Len(sorted) = 0 THEN [m |-> m, ret |-> undefined, err |-> "TypeError"]
       ELSE [m |-> relink([m EXCEPT !.first = sorted[1][1],
                                    !.last = sorted[Len(sorted)][1]], sorted, 1),
             ret |-> "this", err |-> "none"]

DefaultCapacity == 32

\* The state the constructor leaves before it reads the iterable.
emptyMap(capacity, lfNum, lfDen) ==
    [buckets |-> newArray(capacity), capacity |-> capacity,
     first |-> null, last |-> null, size |-> 0,
     lfNum |-> lfNum, lfDen |-> lfDen]

\* for (const [key, value] of iterable) this.set(key, value); setNext goes on
\* after the set of items[i] has given r.
RECURSIVE setAll(_, _, _)
setNext(r, items, i) == IF r.err # "none" THEN r ELSE setAll(r.m, items, i + 1)

setAll(m, items, i) ==
    IF i > Len(items) THEN [m |-> m, ret |-> "this", err |-> "none"]
    ELSE setNext(set(m, items[i][1], items[i][2]), items, i)

\* new ObjectMap(iterable, options), iterable an array of pairs (or absent:
\* the empty array with length 0); optCapacity = 0 when initialCapacity is
\* not given.
\* A default capacity of 16 instead of 32.
initialCapacitySixteen(len, optCapacity) ==
    IF optCapacity # 0 THEN optCapacity
    ELSE IF len # 0 THEN len
    ELSE 16

\* The length of the iterable is not looked at.
initialCapacityIgnoresLength(len, optCapacity) ==
    IF optCapacity # 0 THEN optCapacity ELSE DefaultCapacity

\* options.initialCapacity || iterable.size || iterable.length || 32
initialCapacity(len, optCapacity) ==
    IF optCapacity # 0 THEN optCapacity
    ELSE IF len # 0 THEN len
    ELSE DefaultCapacity

newFromArray(items, optCapacity, lfNum, lfDen) ==
    setAll(emptyMap(initialCapacity(Len(items), optCapacity), lfNum, lfDen), items, 1)

\* new ObjectMap(iterable) with iterable an ObjectMap: capacity and load
\* factor of the source, entries replayed through set while entries() of the
\* source is walked.
copied(r, status) ==
    IF r.err # "none" THEN r
    ELSE IF status # "ok" THEN [m |-> r.m, ret |-> undefined, err |-> status]
    ELSE r

copyEntries(src, e) ==
    copied(setAll(emptyMap(src.capacity, src.lfNum, src.lfDen), e.items, 1), e.status)

newFromMap(src) == copyEntries(src, entries(src))

\* The options object of a constructor call: initialCapacity 0 when it is not
\* given (0 is falsy for ||), loadFactor NoLoadFactor when it is not given.
NoLoadFactor == <<undefined, undefined>>

DefaultLoadFactor == <<3, 4>>

\* options.loadFactor ?? 0.75
loadFactorOf(options) ==
    IF options.loadFactor[1] = undefined THEN DefaultLoadFactor ELSE options.loadFactor

\* new ObjectMap(iterable, options), iterable not an ObjectMap.
newObjectMap(items, options) ==
    newFromArray(items, options.initialCapacity,
                 loadFactorOf(options)[1], loadFactorOf(options)[2])

\* new ObjectMap(iterable, options), iterable an ObjectMap: the branch taken
\* reads nothing of options.
newCopy(src, options) == newFromMap(src)

\* emptyClone(): new ObjectMap(undefined, {initialCapacity: capacity, ...options})
emptyClone(m) == newFromArray(<<>>, m.capacity, m.lfNum, m.lfDen)

\* ------------------------------------------- the default hash and equals
\* A 32-bit word is the pair <<high 16 bits, low 16 bits>>; a JS number that
\* is an integer is <<top, hi, lo>>, its value top * 2^32 + hi * 2^16 + lo
\* (top = -1 for a negative 32-bit integer). A string is the sequence of its
\* char codes.
Half == 65536

\* x ^ y for x, y < 2^16, bit by bit.
xor16(x, y) ==
    1 * (((x \div 1) + (y \div 1)) % 2) +
    2 * (((x \div 2) + (y \div 2)) % 2) +
    4 * (((x \div 4) + (y \div 4)) % 2) +
    8 * (((x \div 8) + (y \div 8)) % 2) +
    16 * (((x \div 16) + (y \div 16)) % 2) +
    32 * (((x \div 32) + (y \div 32)) % 2) +
    64 * (((x \div 64) + (y \div 64)) % 2) +
    128 * (((x \div 128) + (y \div 128)) % 2) +
    256 * (((x \div 256) + (y \div 256)) % 2) +
    512 * (((x \div 512) + (y \div 512)) % 2) +
    1024 * (((x \div 1024) + (y \div 1024)) % 2) +
    2048 * (((x \div 2048) + (y \div 2048)) % 2) +
    4096 * (((x \div 4096) + (y \div 4096)) % 2) +
    8192 * (((x \div 8192) + (y \div 8192)) % 2) +
    16384 * (((x \div 16384) + (y \div 16384)) % 2) +
    32768 * (((x \div 32768) + (y \div 32768)) % 2)

\* a ^ b
xor(a, b) == <<xor16(a[1], b[1]), xor16(a[2], b[2])>>

\* x * y for x, y < 2^16, as a word.
mul16(x, y) ==
    <<((x \div 256) * y) \div 256 + ((((x \div 256) * y) % 256) * 256 + (x % 256) * y) \div Half,
      ((((x \div 256) * y) % 256) * 256 + (x % 256) * y) % Half>>

\* Math.imul(a, b): the low 32 bits of the product.
imul(a, b) ==
    <<(mul16(a[2], b[2])[1] + mul16(a[1], b[2])[2] + mul16(a[2], b[1])[2]) % Half,
      mul16(a[2], b[2])[2]>>

\* a >>> 16 and a >>> 13
shr16(a) == <<0, a[1]>>

shr13(a) == <<(a[1] * 8 + a[2] \div 8192) \div Half, (a[1] * 8 + a[2] \div 8192) % Half>>

\* 4294967296 * (2097151 & h2) + (h1 >>> 0)
joined(h1, h2) == <<(h2[1] % 32) * Half + h2[2], h1[1], h1[2]>>

\* The last four statements of hashString, one operator for each.
avalanche4(h1, a2) == joined(h1, xor(a2, imul(xor(h1, shr13(h1)), <<49842, 44597>>)))

avalanche3(h1, h2) == avalanche4(h1, imul(xor(h2, shr16(h2)), <<34283, 51819>>))

avalanche2(a1, h2) == avalanche3(xor(a1, imul(xor(h2, shr13(h2)), <<49842, 44597>>)), h2)

avalanche(h1, h2) == avalanche2(imul(xor(h1, shr16(h1)), <<34283, 51819>>), h2)

\* Whether w is a 32-bit word. The loops test their accumulators with it,
\* which makes TLC evaluate them round by round.
IsWord(w) == w[1] \in 0..(Half - 1) /\ w[2] \in 0..(Half - 1)

\* The loop of hashString from index i on.
RECURSIVE mixed(_, _, _, _)
mixed(h1, h2, s, i) ==
    IF IsWord(h1) /\ IsWord(h2) /\ i <= Len(s)
    THEN mixed(imul(xor(h1, <<0, s[i]>>), <<40503, 31153>>),
               imul(xor(h2, <<0, s[i]>>), <<24373, 25749>>), s, i + 1)
    ELSE avalanche(h1, h2)

hashString(s) == mixed(<<57005, 48879>>, <<16838, 52823>>, s, 1)

\* n \div 10 and n % 10 for a non-negative number n.
div10(n) ==
    <<n[1] \div 10,
      ((n[1] % 10) * Half + n[2]) \div 10,
      ((((n[1] % 10) * Half + n[2]) % 10) * Half + n[3]) \div 10>>

mod10(n) == ((((n[1] % 10) * Half + n[2]) % 10) * Half + n[3]) % 10

RECURSIVE digits(_, _)
digits(n, acc) ==
    IF n = <<0, 0, 0>> THEN acc ELSE digits(div10(n), <<48 + mod10(n)>> \o acc)

\* -n for a negative 32-bit integer n.
magnitude(n) ==
    <<0, Half - n[2] - (IF n[3] = 0 THEN 0 ELSE 1), (Half - n[3]) % Half>>

\* String(n) for an integer n: 48 is "0", 45 is "-".
numberToString(n) ==
    IF n = <<0, 0, 0>> THEN <<48>>
    ELSE IF n[1] < 0 THEN <<45>> \o digits(magnitude(n), <<>>)
    ELSE digits(n, <<>>)

\* h | 0 of the double nearest to s = upper * 2^32 + hi * 2^16 + lo: s is
\* exact below 2^53, and from there on an odd s is rounded to the neighbour
\* that is a multiple of 4.
toInt32(hi, lo) == <<(IF hi % Half >= 32768 THEN -1 ELSE 0), hi % Half, lo>>

rounded(upper, hi, lo) ==
    IF upper < 2097152 \/ lo % 2 = 0 THEN toInt32(hi, lo)
    ELSE IF lo % 4 = 1 THEN toInt32(hi, lo - 1)
    ELSE toInt32(hi + (lo + 1) \div Half, (lo + 1) % Half)

\* The sum, limb by limb: p is 27285 * lo(h), q is 27285 * hi(h), 92821 being
\* 2^16 + 27285; t0 and t1 are the sums of the two low limbs.
summed(h, x, p, q, t0, t1) ==
    rounded(q[1] + h[2] + (p[1] + q[2] + h[3]) \div Half
              - (IF h[1] < 0 THEN 92821 ELSE 0) + x[1] + t1 \div Half,
            t1 % Half, t0 % Half)

sumLimbs(h, x, p, q) ==
    summed(h, x, p, q, p[2] + x[3],
           ((p[1] + q[2] + h[3]) % Half) + x[2] + ((p[2] + x[3]) \div Half))

\* h = 92821 * h + x; h |= 0
foldStep(h, x) == sumLimbs(h, x, mul16(h[3], 27285), mul16(h[2], 27285))

\* A JS value: its type t (arrays and null apart), its text v for a scalar,
\* the own property names in insertion order for a plain record, and the
\* elements of an array or the property values of a record.
Num(v) == [t |-> "number", v |-> v, names |-> <<>>, items |-> <<>>]

Str(v) == [t |-> "string", v |-> v, names |-> <<>>, items |-> <<>>]

Undefined == [t |-> "undefined", v |-> "undefined", names |-> <<>>, items |-> <<>>]

Null == [t |-> "null", v |-> "null", names |-> <<>>, items |-> <<>>]

Arr(items) == [t |-> "array", v |-> "", names |-> <<>>, items |-> items]

Rec(names, items) == [t |-> "object", v |-> "", names |-> names, items |-> items]

\* The char codes of the texts used.
charCodes(text) ==
    CASE text = "0" -> <<48>>
      [] text = "1" -> <<49>>
      [] text = "NaN" -> <<78, 97, 78>>
      [] text = "null" -> <<110, 117, 108, 108>>
      [] text = "undefined" -> <<117, 110, 100, 101, 102, 105, 110, 101, 100>>
      [] text = "a" -> <<97>>
      [] text = "b" -> <<98>>

\* String(value) for a scalar: -0 is rendered "0".
String(value) == IF value.t = "number" /\ value.v = "-0" THEN "0" ELSE value.v

\* An equals that does not ask whether b has the key.
hasOwnAnything(value, key) == TRUE

\* Object.hasOwn(value, key)
hasOwn(value, key) == \E i \in 1..Len(value.names) : value.names[i] = key

\* value[key]: undefined for a name the record lacks.
prop(value, key) ==
    IF \E i \in 1..Len(value.names) : value.names[i] = key
    THEN value.items[CHOOSE i \in 1..Len(value.names) : value.names[i] = key]
    ELSE [t |-> "undefined", v |-> "undefined", names |-> <<>>, items |-> <<>>]

\* s < t for two strings, by code units: what Array.prototype.sort compares.
before(s, t) ==
    \E i \in 1..Len(t) :
        /\ \A j \in 1..(i - 1) : j <= Len(s) /\ s[j] = t[j]
        /\ (i > Len(s) \/ (i <= Len(s) /\ s[i] < t[i]))

\* Object.keys(value) as they are: no sort.
keysUnsorted(names, i, acc) == names

\* Object.keys(value).sort(): names[i..] inserted into the sorted acc.
RECURSIVE keysSorted(_, _, _)
keysSorted(names, i, acc) ==
    IF i > Len(names) THEN acc
    ELSE keysSorted(names, i + 1,
            SelectSeq(acc, LAMBDA k : ~before(charCodes(names[i]), charCodes(k)))
            \o <<names[i]>>
            \o SelectSeq(acc, LAMBDA k : before(charCodes(names[i]), charCodes(k))))

IsNumber(n) == n[1] \in Int /\ n[2] \in 0..(Half - 1) /\ n[3] \in 0..(Half - 1)

\* hash(value) of hash.ts, the default hash of the containers.
RECURSIVE defaultHash(_), hashArray(_, _, _), hashObject(_, _, _, _)
\* hashArray(value): the loop from index i on, h being the hash so far.
hashArray(value, i, h) ==
    IF IsNumber(h) /\ i <= Len(value)
    THEN hashArray(value, i + 1, foldStep(h, defaultHash(value[i])))
    ELSE h

\* hashObject(value) for a plain record: hashArray(data), data holding
\* hash(key), hash(value[key]) for each key of ks; the elements of data are
\* numbers, which hashArray hashes through their String.
hashObject(value, ks, i, h) ==
    IF IsNumber(h) /\ i <= Len(ks)
    THEN hashObject(value, ks, i + 1,
            foldStep(foldStep(h, hashString(numberToString(hashString(charCodes(ks[i]))))),
                     hashString(numberToString(defaultHash(prop(value, ks[i]))))))
    ELSE h

defaultHash(value) ==
    CASE value.t = "array" -> hashArray(value.items, 1, <<0, 0, 0>>)
      [] value.t = "object" -> hashObject(value, keysSorted(value.names, 1, <<>>), 1, <<0, 0, 0>>)
      [] OTHER -> hashString(charCodes(String(value)))

\* n % capacity for a number n that is not negative.
modulo(n, capacity) ==
    (((n[1] % capacity) * (((Half % capacity) * (Half % capacity)) % capacity))
        + ((n[2] % capacity) * (Half % capacity)) + n[3]) % capacity

\* n % capacity of JavaScript: the remainder has the sign of n.
remainder(n, capacity) ==
    IF n[1] < 0 THEN 0 - modulo(magnitude(n), capacity) ELSE modulo(n, capacity)

\* ObjectMap.hash(key, capacity) under the default hash: this._hash(key) % capacity.
defaultIndex(key, capacity) == remainder(defaultHash(key), capacity)

\* a === b; same tells whether a and b are one object.
strictEquals(a, b, same) ==
    /\ a.t = b.t
    /\ CASE a.t = "number" -> a.v # "NaN" /\ String(a) = String(b)
         [] a.t \in {"array", "object"} -> same
         [] OTHER -> a.v = b.v

isObject(x) == x.t \in {"array", "object"}

\* equals(a, b) of equals.ts, the default equals of the containers, for
\* scalars, null, arrays and plain records.
RECURSIVE defaultEquals(_, _, _)
defaultEquals(a, b, same) ==
    IF strictEquals(a, b, same) THEN TRUE
    ELSE IF ~isObject(a) \/ ~isObject(b)
         THEN ~strictEquals(a, a, TRUE) /\ ~strictEquals(b, b, TRUE)
    ELSE IF a.t # b.t THEN FALSE
    ELSE IF a.t = "array"
         THEN /\ Len(a.items) = Len(b.items)
              /\ \A i \in 1..Len(a.items) : defaultEquals(a.items[i], b.items[i], FALSE)
    ELSE /\ Len(a.names) = Len(b.names)
         /\ \A i \in 1..Len(a.names) :
               /\ hasOwn(b, a.names[i])
               /\ defaultEquals(prop(b, a.names[i]), a.items[i], FALSE)

\* ------------------------------------------------------- heap and slots
ObjIds == {1, 2, 3, 4}
SlotIds == {1, 2}

\* An unallocated cell of the heap.
FreeObj == emptyMap(0, 0, 1)

NoRef == [kind |-> "none", ref |-> 0]

\* A fresh object: the lowest free cell.
alloc(h) == CHOOSE o \in ObjIds : h[o] = FreeObj /\ \A p \in ObjIds : p < o => h[p] # FreeObj

\* Objects no slot refers to are garbage, and an object's address is not
\* observable: what the slots refer to is moved to the cell numbered as the
\* first slot that refers to it.
home(sl, s) == CHOOSE u \in SlotIds : sl[u].ref = sl[s].ref /\ \A w \in SlotIds : sl[w].ref = sl[s].ref => u <= w

settled(sl) == [s \in SlotIds |-> IF sl[s].ref = 0 THEN sl[s] ELSE [sl[s] EXCEPT !.ref = home(sl, s)]]

gc(h, sl) ==
    [o \in ObjIds |-> IF o \in SlotIds /\ sl[o].ref # 0 /\ home(sl, o) = o THEN h[sl[o].ref]
                      ELSE FreeObj]

obj(s) == heap[slots[s].ref]

InitCapacities == {1, 2}
LoadFactors == {<<3, 4>>, <<1, 1>>}

KeysOf(md) == IF md = "map" THEN MapKeys ELSE {KeyOf(1, 0), KeyOf(2, 0)}

\* The values written where two objects are compared: one value suffices.
ValsOf(md) == IF md = "map" THEN Vals ELSE {KeyOf(8, 0)}

\* The last call made: its method, receiver slot, result slot, whether the
\* receiver had a key equal to the argument before the call, what the call
\* returned and how it ended ("none": normally).
Op(name, s, out, hit, ret, err) ==
    [op |-> name, slot |-> s, out |-> out, hit |-> hit, ret |-> ret, err |-> err]

\* An exception nobody catches, or a call that never returns, ends the run.
Running == lastOp.err = "none"

\* The arguments of the last constructor call, where a claim is about them.
NoArgs == [items |-> <<>>, options |-> [initialCapacity |-> 0, loadFactor |-> NoLoadFactor]]

\* ------------------------------------- history of the calls made (ghost)
\* abs is the sequence of <<key, value>> pairs an insertion-ordered map holds
\* after the calls made so far on slot 1: last write wins, first insertion
\* fixes the position, delete removes, sort reorders stably.
absIndex(a, key) ==
    IF \E i \in 1..Len(a) : equals(a[i][1], key)
    THEN CHOOSE i \in 1..Len(a) : equals(a[i][1], key)
    ELSE 0

absSet(a, key, value) ==
    IF absIndex(a, key) # 0
    THEN [a EXCEPT ![absIndex(a, key)] = <<a[absIndex(a, key)][1], value>>]
    ELSE Append(a, <<key, value>>)

absDelete(a, key) ==
    LET i == absIndex(a, key)
    IN IF i = 0 THEN a ELSE SubSeq(a, 1, i - 1) \o SubSeq(a, i + 1, Len(a))

absGet(a, key) == IF absIndex(a, key) # 0 THEN a[absIndex(a, key)][2] ELSE undefined

absKeys(a) == [i \in 1..Len(a) |-> a[i][1]]

absValues(a) == [i \in 1..Len(a) |-> a[i][2]]

Tracked(s) == mode \in {"map", "nullkey"} /\ s = 1

\* hist tells which methods have been called so far: 0 only set; 1 set and
\* delete; 2 set, delete and clear; 3 any.
histAfter(level) == IF level > hist THEN level ELSE hist

\* ----------------------------------------- clone, equals and the facades
\* The object a constructor call n returns, placed on the heap h.
allocated(h, n) ==
    IF n.err # "none" THEN [h |-> h, ref |-> 0, err |-> n.err]
    ELSE [h |-> [h EXCEPT ![alloc(h)] = n.m], ref |-> alloc(h), err |-> "none"]

\* A clone that hands back the receiver itself instead of a copy.
cloneAliases(h, r) == [h |-> h, ref |-> r, err |-> "none"]

\* clone(): new ObjectMap(this) on the object at r. Result [h, ref, err]: the
\* heap with the copy allocated, and the reference to it.
clone(h, r) == allocated(h, newFromMap(h[r]))

\* equals(other): result [ret, err]. The loop over entries() ends at the first
\* entry other lacks or holds with another value.
mapEquals(a, b) ==
    LET e == entries(a)
        bad == {i \in 1..Len(e.items) :
                   \/ ~has(b, e.items[i][1])
                   \/ ~equals(e.items[i][2], get(b, e.items[i][1]))}
    IN IF a.size # b.size THEN [ret |-> FALSE, err |-> "none"]
       ELSE IF bad # {} THEN [ret |-> FALSE, err |-> "none"]
       ELSE IF e.status # "ok" THEN [ret |-> undefined, err |-> e.status]
       ELSE [ret |-> TRUE, err |-> "none"]

\* new ImmutableMap(map) / new ImmutableSet(set) after the call r1 on the
\* clone c: the facade's constructor copies the map it is given.
wrap(c, r1) ==
    LET h2 == [c.h EXCEPT ![c.ref] = r1.m]
    IN IF r1.err # "none" THEN [h |-> h2, ref |-> 0, err |-> r1.err]
       ELSE clone(h2, c.ref)

\* const map = this._map.clone(); map.set(key, value); return new
\* ImmutableMap(map), c being the clone: nothing follows a call that raises.
setOnClone(c, k, v) == IF c.err # "none" THEN c ELSE wrap(c, set(c.h[c.ref], k, v))

deleteOnClone(c, k) == IF c.err # "none" THEN c ELSE wrap(c, delete(c.h[c.ref], k))

clearOnClone(c) == IF c.err # "none" THEN c ELSE wrap(c, clear(c.h[c.ref]))

sortOnClone(c, cmp) == IF c.err # "none" THEN c ELSE wrap(c, sort(c.h[c.ref], cmp))

\* ImmutableMap.set(key, value)
immSet(h, r, k, v) == setOnClone(clone(h, r), k, v)

\* ImmutableMap.delete(key)
immDelete(h, r, k) == deleteOnClone(clone(h, r), k)

\* ImmutableMap.clear(): emptyClone(), wrapped.
immClear(h, r) == clone([h EXCEPT ![alloc(h)] = emptyClone(h[r]).m], alloc(h))

\* ImmutableMap.sort(compareFn)
immSort(h, r, cmp) == sortOnClone(clone(h, r), cmp)

\* ImmutableMap.update(key, updater)
immUpdate(h, r, k) == immSet(h, r, k, updater(get(h[r], k), k))

\* ImmutableSet.add(value): the set keeps value as key and as value.
setAdd(h, r, v) == setOnClone(clone(h, r), v, v)

\* ImmutableSet.delete(value)
setDelete(h, r, v) == deleteOnClone(clone(h, r), v)

\* ImmutableSet.clear(): clone, clear, wrap.
setClear(h, r) == clearOnClone(clone(h, r))

\* ImmutableSet.sort(compareFn): the comparator sees the members.
setSort(h, r, cmp) == sortOnClone(clone(h, r), cmp)

\* The predicates filter is called with: on the key (its id is even), and
\* one every entry satisfies.
Predicates == {"evenId", "always"}

satisfies(p, value, key) == IF p = "evenId" THEN IdOf(key) % 2 = 0 ELSE TRUE

\* ObjectMap.filter(predicate), e being entries() of the receiver m:
\* emptyClone(), then set of each entry the predicate holds for.
filterWith(m, e, p) ==
    copied(setAll(emptyClone(m).m,
                  SelectSeq(e.items, LAMBDA x : satisfies(p, x[2], x[1])), 1),
           e.status)

\* ObjectMap.map(transform), the transform being updater: emptyClone(), then
\* set(key, transform(value, key)) for each entry.
map(m, e) ==
    copied(setAll(emptyClone(m).m,
                  [i \in 1..Len(e.items) |->
                      <<e.items[i][1], updater(e.items[i][2], e.items[i][1])>>], 1),
           e.status)

\* ObjectSet.add(value) for each value of ks, in order: _map.set(value, value).
addAll(m, ks) == setAll(m, [i \in 1..Len(ks) |-> <<ks[i], ks[i]>>], 1)

\* The loop of union on the clone c, ks being what other.keys() yields: the
\* values yielded are added, then the generator's exception, if any, is raised.
unionAdds(c, ks) ==
    IF c.err # "none" THEN c
    ELSE [h |-> [c.h EXCEPT ![c.ref] = copied(addAll(c.h[c.ref], ks.keys), ks.status).m],
          ref |-> c.ref,
          err |-> copied(addAll(c.h[c.ref], ks.keys), ks.status).err]

\* ObjectSet.union(other): const set = this.clone(); for (const value of
\* other.keys()) set.add(value); return set. Result [h, ref, err].
union(h, ra, rb) == unionAdds(clone(h, ra), keys(h[rb]))

\* ObjectMap.filter with the predicate "other.has(key) = keep", e being
\* entries() of the receiver a: emptyClone(), then set of each entry kept.
filter(a, e, b, keep) ==
    copied(setAll(emptyClone(a).m,
                  SelectSeq(e.items, LAMBDA x : has(b, x[1]) = keep), 1),
           e.status)

\* ObjectSet.filter: the set emptyClone() gives has its _map replaced by the
\* map ObjectMap.filter returns.
setFilter(h, ra, rb, keep) == allocated(h, filter(h[ra], entries(h[ra]), h[rb], keep))

\* ObjectSet.intersection(other): filter(value => other.has(value))
intersection(h, ra, rb) == setFilter(h, ra, rb, TRUE)

\* ObjectSet.difference(other): filter(value => !other.has(value))
difference(h, ra, rb) == setFilter(h, ra, rb, FALSE)

\* The body of the loop of symmetricDifference for one value: a member is
\* deleted, a value the set lacks is added.
toggle(m, v) == IF has(m, v) THEN delete(m, v) ELSE set(m, v, v)

RECURSIVE toggleAll(_, _, _)
toggleNext(r, ks, i) == IF r.err # "none" THEN r ELSE toggleAll(r.m, ks, i + 1)

toggleAll(m, ks, i) ==
    IF i > Len(ks) THEN [m |-> m, ret |-> "this", err |-> "none"]
    ELSE toggleNext(toggle(m, ks[i]), ks, i)

\* The loop of symmetricDifference on the clone c, ks being what
\* other.keys() yields.
toggled(c, ks) ==
    IF c.err # "none" THEN c
    ELSE [h |-> [c.h EXCEPT ![c.ref] = copied(toggleAll(c.h[c.ref], ks.keys, 1), ks.status).m],
          ref |-> c.ref,
          err |-> copied(toggleAll(c.h[c.ref], ks.keys, 1), ks.status).err]

\* ObjectSet.symmetricDifference(other). Result [h, ref, err].
symmetricDifference(h, ra, rb) == toggled(clone(h, ra), keys(h[rb]))

\* ObjectSet.every(value => other.has(value)) over values(): result
\* [ret, err]. The loop returns false at the first member b lacks, before
\* anything later in the walk is read.
isSubsetOf(a, b) ==
    LET v == values(a)
    IN IF \E i \in 1..Len(v.items) : ~has(b, v.items[i]) THEN [ret |-> FALSE, err |-> "none"]
       ELSE IF v.status # "ok" THEN [ret |-> undefined, err |-> v.status]
       ELSE [ret |-> TRUE, err |-> "none"]

\* ObjectSet.isSupersetOf(other): the loop over other.keys() returns false at
\* the first value this set lacks.
isSupersetOf(a, b) ==
    LET ks == keys(b)
    IN IF \E i \in 1..Len(ks.keys) : ~has(a, ks.keys[i]) THEN [ret |-> FALSE, err |-> "none"]
       ELSE IF ks.status # "ok" THEN [ret |-> undefined, err |-> ks.status]
       ELSE [ret |-> TRUE, err |-> "none"]

\* ObjectSet.isDisjointFrom(other): !this.some(value => other.has(value));
\* some returns true at the first member b has.
isDisjointFrom(a, b) ==
    LET v == values(a)
    IN IF \E i \in 1..Len(v.items) : has(b, v.items[i]) THEN [ret |-> FALSE, err |-> "none"]
       ELSE IF v.status # "ok" THEN [ret |-> undefined, err |-> v.status]
       ELSE [ret |-> TRUE, err |-> "none"]

\* ---------------------------------------------------------------- actions
\* A call of a mutating method on the ObjectMap in slot s; r is its result.
Apply(s, r, op, absNext, level) ==
    /\ Running
    /\ slots[s].kind = "ObjectMap"
    /\ r.m.capacity <= MaxCapacity
    /\ heap' = [heap EXCEPT ![slots[s].ref] = r.m]
    /\ lastOp' = op
    /\ abs' = IF Tracked(s) THEN absNext ELSE abs
    /\ hist' = IF Tracked(s) THEN histAfter(level) ELSE hist
    /\ UNCHANGED <<slots, mode, args>>

Set(s, k, v) ==
    LET r == set(obj(s), k, v)
    IN Apply(s, r, Op("set", s, 0, has(obj(s), k), r.ret, r.err), absSet(abs, k, v), 0)

Delete(s, k) ==
    LET r == delete(obj(s), k)
    IN Apply(s, r, Op("delete", s, 0, has(obj(s), k), r.ret, r.err), absDelete(abs, k), 1)

Clear(s) ==
    LET r == clear(obj(s))
    IN Apply(s, r, Op("clear", s, 0, FALSE, r.ret, r.err), <<>>, 2)

Sort(s, cmp) ==
    LET r == sort(obj(s), cmp)
    IN Apply(s, r, Op("sort", s, 0, FALSE, r.ret, r.err), arraySort(cmp, abs, 1, <<>>), 3)

Pop(s, k) ==
    LET r == pop(obj(s), k)
    IN Apply(s, r, Op("pop", s, 0, has(obj(s), k), r.ret, r.err), absDelete(abs, k), 3)

Update(s, k) ==
    LET r == update(obj(s), k)
    IN Apply(s, r, Op("update", s, 0, has(obj(s), k), r.ret, r.err),
             absSet(abs, k, updater(absGet(abs, k), k)), 3)

\* new ObjectMap(undefined, {initialCapacity, loadFactor, equals, hash})
InitMap ==
    /\ mode = "map"
    /\ \E c \in InitCapacities, lf \in LoadFactors :
          heap = [o \in ObjIds |-> IF o = 1 THEN newFromArray(<<>>, c, lf[1], lf[2]).m
                                   ELSE FreeObj]
    /\ slots = [s \in SlotIds |-> IF s = 1 THEN [kind |-> "ObjectMap", ref |-> 1] ELSE NoRef]
    /\ lastOp = Op("new", 1, 0, FALSE, "this", "none")
    /\ abs = <<>>
    /\ hist = 0
    /\ args = NoArgs

Init == InitMap

Next ==
    \/ \E k \in KeysOf(mode), v \in Vals : Set(1, k, v)
    \/ \E k \in KeysOf(mode) : Delete(1, k)
    \/ Clear(1)
    \/ \E cmp \in Comparators : Sort(1, cmp)
    \/ \E k \in KeysOf(mode) : Pop(1, k)
    \/ \E k \in KeysOf(mode) : Update(1, k)

Spec == Init /\ [][Next]_vars

\* ---------------------------------------------- two maps: clone and copy
\* t = <the call that gave res>: nothing is assigned when the call raises, or
\* when its result is dropped (t = 0).
assigned(sl, t, kind, res) ==
    IF res.err = "none" /\ t # 0 THEN [sl EXCEPT ![t] = [kind |-> kind, ref |-> res.ref]] ELSE sl

\* A call on the object in slot s that returns a new object, stored in slot t
\* (or dropped) when the call returns; res is [h, ref, err].
ImmCall(s, t, kind, res, name, hit) ==
    /\ Running
    /\ slots[s].kind = kind
    /\ t # s
    /\ res.err = "none" => res.h[res.ref].capacity <= MaxCapacity
    /\ slots' = settled(assigned(slots, t, kind, res))
    /\ heap' = gc(res.h, assigned(slots, t, kind, res))
    /\ lastOp' = Op(name, s, t, hit, IF res.err = "none" THEN "new" ELSE undefined, res.err)
    /\ UNCHANGED <<abs, hist, mode, args>>

\* t = s.clone(): slot t refers to the copy.
Clone(s, t) ==
    ImmCall(s, t, "ObjectMap", clone(heap, slots[s].ref), "clone", FALSE)

InitClone ==
    /\ mode = "clone"
    /\ \E c \in InitCapacities, lf \in LoadFactors :
          heap = [o \in ObjIds |-> IF o = 1 THEN newFromArray(<<>>, c, lf[1], lf[2]).m
                                   ELSE FreeObj]
    /\ slots = [s \in SlotIds |-> IF s = 1 THEN [kind |-> "ObjectMap", ref |-> 1] ELSE NoRef]
    /\ lastOp = Op("new", 1, 0, FALSE, "this", "none")
    /\ abs = <<>>
    /\ hist = 0
    /\ args = NoArgs

NextClone ==
    \/ \E s \in SlotIds, k \in KeysOf(mode), v \in ValsOf(mode) : Set(s, k, v)
    \/ \E s \in SlotIds, k \in KeysOf(mode) : Delete(s, k)
    \/ \E s \in SlotIds : Clear(s)
    \/ \E s \in SlotIds, cmp \in {"byKey"} : Sort(s, cmp)
    \/ \E s \in SlotIds, t \in SlotIds : Clone(s, t)

SpecClone == InitClone /\ [][NextClone]_vars

\* ------------------------------------------------ the immutable facades
Facades == {"ImmutableMap", "ImmutableSet"}

ImSet(s, t, k, v) ==
    ImmCall(s, t, "ImmutableMap", immSet(heap, slots[s].ref, k, v), "ImmutableMap.set", has(obj(s), k))

ImDelete(s, t, k) ==
    ImmCall(s, t, "ImmutableMap", immDelete(heap, slots[s].ref, k), "ImmutableMap.delete", has(obj(s), k))

ImClear(s, t) ==
    ImmCall(s, t, "ImmutableMap", immClear(heap, slots[s].ref), "ImmutableMap.clear", FALSE)

ImSort(s, t, cmp) ==
    ImmCall(s, t, "ImmutableMap", immSort(heap, slots[s].ref, cmp), "ImmutableMap.sort", FALSE)

ImUpdate(s, t, k) ==
    ImmCall(s, t, "ImmutableMap", immUpdate(heap, slots[s].ref, k), "ImmutableMap.update", has(obj(s), k))

SetAdd(s, t, v) ==
    ImmCall(s, t, "ImmutableSet", setAdd(heap, slots[s].ref, v), "ImmutableSet.add", has(obj(s), v))

SetDelete(s, t, v) ==
    ImmCall(s, t, "ImmutableSet", setDelete(heap, slots[s].ref, v), "ImmutableSet.delete", has(obj(s), v))

SetClear(s, t) ==
    ImmCall(s, t, "ImmutableSet", setClear(heap, slots[s].ref), "ImmutableSet.clear", FALSE)

SetSort(s, t, cmp) ==
    ImmCall(s, t, "ImmutableSet", setSort(heap, slots[s].ref, cmp), "ImmutableSet.sort", FALSE)

\* The arrays the facades are constructed from.
MapArrays == {<<>>, <<<<KeyOf(1, 0), KeyOf(8, 0)>>>>,
              <<<<KeyOf(1, 0), KeyOf(8, 0)>>, <<KeyOf(2, 0), KeyOf(9, 0)>>>>}

SetArrays == {<<>>, <<<<KeyOf(1, 0), KeyOf(1, 0)>>>>}

\* new ImmutableMap(array, options) or new ImmutableSet(array, options); a
\* constructor that raises leaves no facade. optCapacity 0: not given, the
\* array's length is the capacity (the set's constructor hides the length
\* behind toMapIterable, so it is always given here).
InitImm ==
    /\ mode = "imm"
    /\ \E kind \in Facades, c \in {0} \cup InitCapacities, lf \in LoadFactors :
       \E items \in (IF kind = "ImmutableMap" THEN MapArrays ELSE SetArrays) :
          LET r == newFromArray(items, c, lf[1], lf[2])
          IN /\ c = 0 => (kind = "ImmutableMap" /\ items # <<>>)
             /\ r.err = "none"
             /\ r.m.capacity <= MaxCapacity
             /\ heap = [o \in ObjIds |-> IF o = 1 THEN r.m ELSE FreeObj]
             /\ slots = [s \in SlotIds |-> IF s = 1 THEN [kind |-> kind, ref |-> 1] ELSE NoRef]
    /\ lastOp = Op("new", 1, 0, FALSE, "this", "none")
    /\ abs = <<>>
    /\ hist = 0
    /\ args = NoArgs

\* Where a result goes: a slot, or nowhere.
Targets == SlotIds \cup {0}

NextImm ==
    \/ \E s \in SlotIds, t \in Targets, k \in KeysOf(mode), v \in ValsOf(mode) : ImSet(s, t, k, v)
    \/ \E s \in SlotIds, t \in Targets, k \in KeysOf(mode) : ImDelete(s, t, k)
    \/ \E s \in SlotIds, t \in Targets : ImClear(s, t)
    \/ \E s \in SlotIds, t \in Targets, cmp \in Comparators : ImSort(s, t, cmp)
    \/ \E s \in SlotIds, t \in Targets, k \in KeysOf(mode) : ImUpdate(s, t, k)
    \/ \E s \in SlotIds, t \in Targets, v \in KeysOf(mode) : SetAdd(s, t, v)
    \/ \E s \in SlotIds, t \in Targets, v \in KeysOf(mode) : SetDelete(s, t, v)
    \/ \E s \in SlotIds, t \in Targets : SetClear(s, t)
    \/ \E s \in SlotIds, t \in Targets, cmp \in {"none", "byKey"} : SetSort(s, t, cmp)

SpecImm == InitImm /\ [][NextImm]_vars

\* ------------------------------------------------------ the constructor
\* The iterables and options the constructor is called with.
CtorArrays == {<<>>, <<<<KeyOf(1, 0), KeyOf(8, 0)>>>>,
               <<<<KeyOf(1, 0), KeyOf(8, 0)>>, <<KeyOf(2, 0), KeyOf(8, 0)>>>>,
               <<<<KeyOf(1, 0), KeyOf(8, 0)>>, <<KeyOf(1, 1), KeyOf(8, 0)>>>>}

CtorLoadFactors == {NoLoadFactor, <<1, 1>>, <<1, 4>>}

CtorOptions == [initialCapacity : {0} \cup InitCapacities, loadFactor : CtorLoadFactors]

\* A constructor call that gave res, its result assigned to slot t.
Make(s, t, res, name) ==
    /\ Running
    /\ slots' = settled(assigned(slots, t, "ObjectMap", res))
    /\ heap' = gc(res.h, assigned(slots, t, "ObjectMap", res))
    /\ lastOp' = Op(name, s, t, FALSE, IF res.err = "none" THEN "new" ELSE undefined, res.err)
    /\ UNCHANGED <<abs, hist, mode>>

\* m = new ObjectMap(args.items, args.options)
Construct ==
    /\ slots[1].kind = "none"
    /\ Make(0, 1, allocated(heap, newObjectMap(args.items, args.options)), "new")
    /\ UNCHANGED args

\* copy = new ObjectMap(m, o)
CopyConstruct(o) ==
    /\ slots[1].kind = "ObjectMap"
    /\ Make(1, 2, allocated(heap, newCopy(obj(1), o)), "copy")
    /\ args' = [args EXCEPT !.options = o]

InitCtor ==
    /\ mode = "ctor"
    /\ args \in [items : CtorArrays, options : CtorOptions]
    /\ heap = [o \in ObjIds |-> FreeObj]
    /\ slots = [s \in SlotIds |-> NoRef]
    /\ lastOp = Op("none", 0, 0, FALSE, undefined, "none")
    /\ abs = <<>>
    /\ hist = 0

NextCtor ==
    \/ Construct
    \/ \E o \in CtorOptions : CopyConstruct(o)
    \/ \E k \in KeysOf(mode), v \in ValsOf(mode) : Set(1, k, v)

SpecCtor == InitCtor /\ [][NextCtor]_vars

\* ------------------------------------------------------- two ObjectSets
\* s.add(v) on the ObjectSet in slot s.
Add(s, v) ==
    /\ Running
    /\ slots[s].kind = "ObjectSet"
    /\ set(obj(s), v, v).m.capacity <= MaxCapacity
    /\ heap' = [heap EXCEPT ![slots[s].ref] = set(obj(s), v, v).m]
    /\ lastOp' = Op("add", s, 0, has(obj(s), v), set(obj(s), v, v).ret, set(obj(s), v, v).err)
    /\ UNCHANGED <<slots, abs, hist, mode, args>>

\* t = s.union(o), t = s.intersection(o), t = s.difference(o)
Union(s, o, t) ==
    /\ slots[o].kind = "ObjectSet"
    /\ ImmCall(s, t, "ObjectSet", union(heap, slots[s].ref, slots[o].ref), "union", FALSE)

Intersection(s, o, t) ==
    /\ slots[o].kind = "ObjectSet"
    /\ ImmCall(s, t, "ObjectSet", intersection(heap, slots[s].ref, slots[o].ref), "intersection", FALSE)

Difference(s, o, t) ==
    /\ slots[o].kind = "ObjectSet"
    /\ ImmCall(s, t, "ObjectSet", difference(heap, slots[s].ref, slots[o].ref), "difference", FALSE)

SymmetricDifference(s, o, t) ==
    /\ slots[o].kind = "ObjectSet"
    /\ ImmCall(s, t, "ObjectSet", symmetricDifference(heap, slots[s].ref, slots[o].ref),
               "symmetricDifference", FALSE)

\* a = new ObjectSet(undefined, options); b = new ObjectSet(undefined, options)
InitSet ==
    /\ mode = "set"
    /\ \E ca \in InitCapacities, cb \in InitCapacities, la \in LoadFactors, lb \in LoadFactors :
          heap = [o \in ObjIds |-> IF o = 1 THEN newFromArray(<<>>, ca, la[1], la[2]).m
                                   ELSE IF o = 2 THEN newFromArray(<<>>, cb, lb[1], lb[2]).m
                                   ELSE FreeObj]
    /\ slots = [s \in SlotIds |-> [kind |-> "ObjectSet", ref |-> s]]
    /\ lastOp = Op("new", 1, 0, FALSE, "this", "none")
    /\ abs = <<>>
    /\ hist = 0
    /\ args = NoArgs

NextSet ==
    \/ \E s \in SlotIds, v \in KeysOf(mode) : Add(s, v)
    \/ \E s \in SlotIds, o \in SlotIds, t \in Targets : Union(s, o, t)
    \/ \E s \in SlotIds, o \in SlotIds, t \in Targets : Intersection(s, o, t)
    \/ \E s \in SlotIds, o \in SlotIds, t \in Targets : Difference(s, o, t)
    \/ \E s \in SlotIds, o \in SlotIds, t \in Targets : SymmetricDifference(s, o, t)

SpecSet == InitSet /\ [][NextSet]_vars

\* ------------------------------------------ the predicates on two sets
\* A call on the set in slot s with the set in slot o as argument, r being
\* the [ret, err] it gives: nothing is written.
Query(s, o, name, r) ==
    /\ Running
    /\ slots[s].kind = "ObjectSet" /\ slots[o].kind = "ObjectSet"
    /\ lastOp' = Op(name, s, o, FALSE, r.ret, r.err)
    /\ UNCHANGED <<heap, slots, abs, hist, mode, args>>

IsSubsetOf(s, o) == Query(s, o, "isSubsetOf", isSubsetOf(obj(s), obj(o)))

IsSupersetOf(s, o) == Query(s, o, "isSupersetOf", isSupersetOf(obj(s), obj(o)))

IsDisjointFrom(s, o) == Query(s, o, "isDisjointFrom", isDisjointFrom(obj(s), obj(o)))

NextQuery ==
    \/ \E s \in SlotIds, v \in KeysOf(mode) : Add(s, v)
    \/ \E s \in SlotIds, o \in SlotIds : IsSubsetOf(s, o)
    \/ \E s \in SlotIds, o \in SlotIds : IsSupersetOf(s, o)
    \/ \E s \in SlotIds, o \in SlotIds : IsDisjointFrom(s, o)

SpecQuery == InitSet /\ [][NextQuery]_vars

\* --------------------------------------------- maps derived from a map
\* t = s.filter(p)
Filter(s, t, p) ==
    ImmCall(s, t, "ObjectMap", allocated(heap, filterWith(obj(s), entries(obj(s)), p)),
            "filter", FALSE)

\* t = s.map(updater)
Map(s, t) ==
    ImmCall(s, t, "ObjectMap", allocated(heap, map(obj(s), entries(obj(s)))), "map", FALSE)

InitDerived ==
    /\ mode = "derived"
    /\ \E c \in InitCapacities, lf \in LoadFactors :
          heap = [o \in ObjIds |-> IF o = 1 THEN newFromArray(<<>>, c, lf[1], lf[2]).m
                                   ELSE FreeObj]
    /\ slots = [s \in SlotIds |-> IF s = 1 THEN [kind |-> "ObjectMap", ref |-> 1] ELSE NoRef]
    /\ lastOp = Op("new", 1, 0, FALSE, "this", "none")
    /\ abs = <<>>
    /\ hist = 0
    /\ args = NoArgs

\* The map of slot 1 is written; the maps derived from it are kept in slot 2
\* or dropped.
NextDerived ==
    \/ \E k \in KeysOf(mode), v \in {KeyOf(8, 0), KeyOf(9, 0)} : Set(1, k, v)
    \/ \E k \in KeysOf(mode) : Delete(1, k)
    \/ \E t \in Targets, p \in Predicates : Filter(1, t, p)
    \/ \E t \in Targets : Map(1, t)

SpecDerived == InitDerived /\ [][NextDerived]_vars

\* ------------------------------------------------ one ObjectSet, in place
\* A call of a mutating method on the ObjectSet in slot s; r is the result of
\* the call it makes on _map.
SetApply(s, r, name, hit) ==
    /\ Running
    /\ slots[s].kind = "ObjectSet"
    /\ r.m.capacity <= MaxCapacity
    /\ heap' = [heap EXCEPT ![slots[s].ref] = r.m]
    /\ lastOp' = Op(name, s, 0, hit, r.ret, r.err)
    /\ UNCHANGED <<slots, abs, hist, mode, args>>

\* s.delete(v): _map.delete(v)
DeleteValue(s, v) == SetApply(s, delete(obj(s), v), "delete", has(obj(s), v))

\* s.clear(): _map.clear()
ClearSet(s) == SetApply(s, clear(obj(s)), "clear", FALSE)

\* s.sort(compareFn): _map.sort of the entries by their keys, or with no
\* comparator where compareFn is undefined.
SetComparators == {"none", "byKey"}

SortSet(s, cmp) == SetApply(s, sort(obj(s), cmp), "sort", FALSE)

\* new ObjectSet(undefined, options)
InitOneSet ==
    /\ mode = "oneset"
    /\ \E c \in InitCapacities, lf \in LoadFactors :
          heap = [o \in ObjIds |-> IF o = 1 THEN newFromArray(<<>>, c, lf[1], lf[2]).m
                                   ELSE FreeObj]
    /\ slots = [s \in SlotIds |-> IF s = 1 THEN [kind |-> "ObjectSet", ref |-> 1] ELSE NoRef]
    /\ lastOp = Op("new", 1, 0, FALSE, "this", "none")
    /\ abs = <<>>
    /\ hist = 0
    /\ args = NoArgs

NextOneSet ==
    \/ \E v \in MapKeys : Add(1, v)
    \/ \E v \in MapKeys : DeleteValue(1, v)
    \/ ClearSet(1)
    \/ \E cmp \in SetComparators : SortSet(1, cmp)

SpecOneSet == InitOneSet /\ [][NextOneSet]_vars

\* ------------------------------------------------ a map with the key null
\* The keys set: null and two objects.
NullKeys == {null, KeyOf(1, 0), KeyOf(2, 0)}

\* new ObjectMap(undefined, options), the capacities going up to one that
\* three keys do not fill.
InitNull ==
    /\ mode = "nullkey"
    /\ \E c \in InitCapacities \cup {MaxCapacity}, lf \in LoadFactors :
          heap = [o \in ObjIds |-> IF o = 1 THEN newFromArray(<<>>, c, lf[1], lf[2]).m
                                   ELSE FreeObj]
    /\ slots = [s \in SlotIds |-> IF s = 1 THEN [kind |-> "ObjectMap", ref |-> 1] ELSE NoRef]
    /\ lastOp = Op("new", 1, 0, FALSE, "this", "none")
    /\ abs = <<>>
    /\ hist = 0
    /\ args = NoArgs

NextNull == \E k \in NullKeys, v \in Vals : Set(1, k, v)

SpecNull == InitNull /\ [][NextNull]_vars

\* ------------------------------------------------- equals and hash alone
MaxLength == 2

Scalars == {Num("0"), Num("-0"), Num("1"), Num("NaN"), Str("1"), Str("null"), Undefined, Null}

\* What the arrays and the records hold at the first level.
Elements == {Num("0"), Num("-0"), Undefined}

PropValues == {Num("1"), Num("NaN"), Undefined}

PropNames == {<<>>, <<"a">>, <<"b">>, <<"a", "b">>, <<"b", "a">>}

Arrays == {Arr(items) : items \in UNION {[1..n -> Elements] : n \in 0..MaxLength}}

Records == UNION {{Rec(names, items) : items \in [1..Len(names) -> PropValues]} : names \in PropNames}

\* What the arrays and the records of the second level hold.
Nested == {Arr(<<>>), Arr(<<Num("0")>>), Arr(<<Num("-0")>>), Rec(<<>>, <<>>),
           Rec(<<"a">>, <<Num("1")>>), Rec(<<"a">>, <<Undefined>>),
           Rec(<<"a", "b">>, <<Num("1"), Num("1")>>), Rec(<<"b", "a">>, <<Num("1"), Num("1")>>)}

Values ==
    Scalars \cup Arrays \cup Records
        \cup {Arr(<<x>>) : x \in Nested} \cup {Rec(<<"a">>, <<x>>) : x \in Nested}

\* A run is one call: equals(a, b)
Equals ==
    /\ lastOp.op = "none"
    /\ mode = "hash"
    /\ lastOp' = Op("equals", 0, 0, FALSE, defaultEquals(args.a, args.b, args.same), "none")
    /\ UNCHANGED <<heap, slots, abs, hist, mode, args>>

\* or hash(a)
Hash ==
    /\ lastOp.op = "none"
    /\ mode = "hash"
    /\ lastOp' = Op("hash", 0, 0, FALSE, defaultHash(args.a), "none")
    /\ UNCHANGED <<heap, slots, abs, hist, mode, args>>

\* The two arguments; same tells whether they are one object.
InitHash ==
    /\ mode = "hash"
    /\ args \in [a : Values, b : Values, same : BOOLEAN]
    /\ args.same => (args.a = args.b /\ isObject(args.a))
    /\ heap = [o \in ObjIds |-> FreeObj]
    /\ slots = [s \in SlotIds |-> NoRef]
    /\ lastOp = Op("none", 0, 0, FALSE, undefined, "none")
    /\ abs = <<>>
    /\ hist = 0

NextHash == Equals \/ Hash

SpecHash == InitHash /\ [][NextHash]_vars

\* ------------------------------------------------------------------ claims
\* The ObjectMap of the single-map specification.
M == obj(1)

\* C1: after any sequence of set and delete calls, get(k) is the value of the
\* most recent set of a key equal to k not followed by a delete of an equal
\* key, has(k) is true in exactly that case, and get(k) is undefined otherwise.
C1_GetReturnsLastSet ==
    hist <= 1 =>
        \A k \in MapKeys :
            /\ get(M, k) = absGet(abs, k)
            /\ has(M, k) = (absIndex(abs, k) # 0)

\* C2: after any sequence of set, delete and clear calls, size is the number
\* of distinct keys set and not since deleted or cleared.
C2_SizeCountsDistinctKeys == hist <= 2 => M.size = Len(abs)

\* C3: after set calls only, keys(), values() and entries() each yield one
\* element per distinct key, in the order of first insertion.
C3_InsertionOrder ==
    hist = 0 =>
        /\ keys(M) = [keys |-> absKeys(abs), status |-> "ok"]
        /\ values(M) = [items |-> absValues(abs), status |-> "ok"]
        /\ entries(M) = [items |-> abs, status |-> "ok"]

\* The sequence ks without the keys equal to k.
without(ks, k) ==
    LET idx == {i \in 1..Len(ks) : ~equals(ks[i], k)}
        nth(n) == CHOOSE i \in idx : Cardinality({j \in idx : j <= i}) = n
    IN [n \in 1..Cardinality(idx) |-> ks[nth(n)]]

\* C4: set(k, v) on a map that has a key equal to k replaces that entry's
\* value only: size, capacity, the keys() sequence and the value of every
\* other key stay as they are.
C4_SetExistingReplacesValueOnly ==
    \A k \in MapKeys, v \in Vals :
        has(M, k) =>
            LET r == set(M, k, v)
            IN /\ r.err = "none"
               /\ r.m.size = M.size
               /\ r.m.capacity = M.capacity
               /\ keys(r.m) = keys(M)
               /\ get(r.m, k) = v
               /\ \A j \in MapKeys : ~equals(j, k) => get(r.m, j) = get(M, j)

\* A set on a present key has returned, in a map that holds another key too.
C4_Witness ==
    /\ lastOp.op = "set" /\ lastOp.hit /\ lastOp.err = "none"
    /\ M.size >= 2 /\ stored(M) >= 2

\* C5: delete(k) returns true iff a key equal to k was present; when it does,
\* size is one less, has(k) is false and keys() is the previous sequence
\* without that key.
C5_DeleteRemovesOneKey ==
    \A k \in MapKeys :
        LET r == delete(M, k)
        IN /\ r.err = "none"
           /\ r.ret = has(M, k)
           /\ has(M, k) =>
                /\ r.m.size = M.size - 1
                /\ ~has(r.m, k)
                /\ keys(r.m) = [keys |-> without(keys(M).keys, k), status |-> keys(M).status]

\* C6: on a map with no key equal to k, get(k) and pop(k) return undefined,
\* delete(k) returns false, none raises and each leaves the map as it was.
C6_MissingKeyIsNoError ==
    \A k \in MapKeys :
        ~has(M, k) =>
            /\ get(M, k) = undefined
            /\ pop(M, k) = [m |-> M, ret |-> undefined, err |-> "none"]
            /\ delete(M, k) = [m |-> M, ret |-> FALSE, err |-> "none"]

\* A pop of a missing key has returned, on a map that is not empty.
C6_Witness ==
    /\ lastOp.op = "pop" /\ ~lastOp.hit /\ lastOp.err = "none"
    /\ lastOp.ret = undefined
    /\ stored(M) >= 1

\* C7: no call raises: the last call ended normally, and in the state reached
\* get, has, set, delete, clear, sort, clone and a full traversal would each
\* end normally.
C7_NoOperationRaises ==
    /\ lastOp.err = "none"
    /\ \A k \in MapKeys, v \in Vals : set(M, k, v).err = "none"
    /\ \A k \in MapKeys : delete(M, k).err = "none"
    /\ clear(M).err = "none"
    /\ \A cmp \in Comparators : sort(M, cmp).err = "none"
    /\ newFromMap(M).err = "none"
    /\ entries(M).status = "ok"

\* What a caller can observe of a map: size, keys(), get and has of each key.
Obs(m) ==
    [size |-> m.size, keys |-> keys(m),
     get |-> [k \in MapKeys |-> get(m, k)], has |-> [k \in MapKeys |-> has(m, k)]]

\* C8: a mutator called on an ImmutableMap (set, delete, clear, update, sort)
\* or an ImmutableSet (add, delete, clear, sort) leaves the size, keys(), get
\* and has of its receiver as they were, whether the call returns or raises;
\* and so does every later call, on the returned instance or on any other, to
\* every instance that is still referred to.
C8_MutatorsLeaveReceiver ==
    [][\A u \in SlotIds :
          (slots[u].kind \in Facades /\ (lastOp'.err # "none" \/ lastOp'.out # u))
          => /\ slots'[u].kind = slots[u].kind
             /\ Obs(heap'[slots'[u].ref]) = Obs(heap[slots[u].ref])]_vars

\* A set that returned an instance holding a key its receiver lacks.
C8_Witness ==
    /\ lastOp.op = "ImmutableMap.set"
    /\ lastOp.err = "none"
    /\ lastOp.out # 0
    /\ slots[lastOp.out].ref # slots[lastOp.slot].ref
    /\ \E k \in MapKeys : has(obj(lastOp.out), k) /\ ~has(obj(lastOp.slot), k)

\* What C9 says of r = m.set(k, v), m the object at ref and res the result.
setGivesUpdatedCopy(m, ref, res, k, v) ==
    /\ res.err = "none"
    /\ res.ref # ref
    /\ get(res.h[res.ref], k) = v
    /\ \A j \in MapKeys : ~equals(j, k) => get(res.h[res.ref], j) = get(m, j)
    /\ res.h[res.ref].size = IF has(m, k) THEN m.size ELSE m.size + 1
    /\ keys(res.h[res.ref])
          = [keys |-> IF has(m, k) THEN keys(m).keys ELSE Append(keys(m).keys, k),
             status |-> "ok"]

\* What C9 says of r = m.delete(k).
deleteGivesCopyWithout(m, ref, res, k) ==
    /\ res.err = "none"
    /\ res.ref # ref
    /\ keys(res.h[res.ref]) = [keys |-> without(keys(m).keys, k), status |-> "ok"]

\* C9: ImmutableMap.set(k, v) returns a distinct instance r with r.get(k) = v,
\* r.get(j) = m.get(j) for every other key j, r.size = m.size when m has k and
\* m.size + 1 otherwise, and r.keys() = m.keys() with k appended when k was
\* absent; ImmutableMap.delete(k) returns a distinct instance whose keys() is
\* m.keys() without k.
C9_SetAndDeleteReturnUpdatedCopy ==
    \A s \in SlotIds :
       slots[s].kind = "ImmutableMap" =>
          \A k \in KeysOf(mode) :
             /\ \A v \in Vals :
                   setGivesUpdatedCopy(obj(s), slots[s].ref,
                                       immSet(heap, slots[s].ref, k, v), k, v)
             /\ deleteGivesCopyWithout(obj(s), slots[s].ref,
                                       immDelete(heap, slots[s].ref, k), k)

\* What C10 says of c = m.clone(), m the object at ref and res the result.
cloneIsEqualCopy(m, ref, res) ==
    /\ res.err = "none"
    /\ res.ref # ref
    /\ res.h[res.ref].capacity = m.capacity
    /\ res.h[res.ref].lfNum = m.lfNum
    /\ res.h[res.ref].lfDen = m.lfDen
    /\ res.h[res.ref].size = m.size
    /\ entries(m).status = "ok"
    /\ entries(res.h[res.ref]) = entries(m)
    /\ mapEquals(res.h[res.ref], m).err = "none"
    /\ mapEquals(res.h[res.ref], m).ret

\* C10: m.clone() is a distinct map with the capacity, load factor, size and
\* entries() of m, and clone.equals(m) is true; afterwards a set, delete,
\* clear or sort on either of the two leaves the other as it was.
C10_CloneIsEqualAndIndependent ==
    [][\A s \in SlotIds :
          slots[s].kind = "ObjectMap" =>
             /\ cloneIsEqualCopy(obj(s), slots[s].ref, clone(heap, slots[s].ref))
             /\ \A t \in SlotIds \ {s} :
                   (lastOp'.op \in {"set", "delete", "clear", "sort"} /\ lastOp'.slot = s
                    /\ slots[t].kind = "ObjectMap")
                   => heap'[slots'[t].ref] = heap[slots[t].ref]]_vars

\* C11: a copy constructed from an ObjectMap with explicit options has the
\* capacity options.initialCapacity and the loadFactor options.loadFactor, and
\* the entries of the source. (equals and hash are the same for every map of
\* the model.)
C11_CopyOptionsOverride ==
    (lastOp.op = "copy" /\ lastOp.err = "none") =>
        /\ args.options.initialCapacity # 0
              => obj(2).capacity = args.options.initialCapacity
        /\ args.options.loadFactor # NoLoadFactor
              => <<obj(2).lfNum, obj(2).lfDen>> = args.options.loadFactor
        /\ entries(obj(2)) = entries(obj(1))

namedCapacity(a) ==
    IF a.options.initialCapacity # 0 THEN a.options.initialCapacity ELSE Len(a.items)

\* C13: a map constructed from an iterable of length n > 0 has its bucket
\* array created with capacity n, or with options.initialCapacity when that
\* is given: the constructor computes that capacity, and the map still has it
\* when its entries never overloaded it.
C13_CapacityFromLength ==
    (lastOp.op = "new" /\ Len(args.items) > 0) =>
        /\ initialCapacity(Len(args.items), args.options.initialCapacity)
              = namedCapacity(args)
        /\ (lastOp.err = "none"
            /\ obj(1).size * obj(1).lfDen <= namedCapacity(args) * obj(1).lfNum)
              => obj(1).capacity = namedCapacity(args)

\* A map made from two entries without initialCapacity, holding both.
C13_Witness ==
    /\ lastOp.op = "new" /\ lastOp.err = "none"
    /\ Len(args.items) = 2 /\ args.options.initialCapacity = 0
    /\ obj(1).capacity = 2 /\ stored(obj(1)) = 2

\* C14: a map whose loadFactor is 1 never resizes: a set call leaves its
\* capacity as it was.
C14_LoadFactorOneNeverResizes ==
    [][(lastOp'.op = "set" /\ lastOp'.slot = 1 /\ M.lfNum = M.lfDen)
          => heap'[slots'[1].ref].capacity = M.capacity]_vars

\* C15: when a set call has returned, size / capacity <= loadFactor.
C15_LoadBoundAfterSet ==
    (lastOp.op = "set" /\ lastOp.err = "none")
        => M.size * M.lfDen <= M.capacity * M.lfNum

\* C16: clear() leaves size 0, head and tail null, an empty bucket array of
\* the capacity the map had, the loadFactor it had, has(k) false for every k
\* and keys() empty: the map is as a newly constructed one of that capacity.
C16_ClearResets ==
    [][(lastOp'.op = "clear" /\ lastOp'.slot = 1) =>
          /\ lastOp'.err = "none"
          /\ heap'[slots'[1].ref].size = 0
          /\ heap'[slots'[1].ref].first = null
          /\ heap'[slots'[1].ref].last = null
          /\ heap'[slots'[1].ref].capacity = M.capacity
          /\ heap'[slots'[1].ref].buckets = newArray(M.capacity)
          /\ heap'[slots'[1].ref].lfNum = M.lfNum
          /\ heap'[slots'[1].ref].lfDen = M.lfDen
          /\ \A k \in MapKeys : ~has(heap'[slots'[1].ref], k)
          /\ keys(heap'[slots'[1].ref]) = [keys |-> <<>>, status |-> "ok"]
          /\ heap'[slots'[1].ref] = newFromArray(<<>>, M.capacity, M.lfNum, M.lfDen).m]_vars

\* clear() has returned on a map that had grown.
C16_Witness == lastOp.op = "clear" /\ lastOp.err = "none" /\ M.capacity = 4 /\ M.size = 0

\* What C17 says of sort(cmp) on m, r being what the call gives.
sortedStably(m, r, cmp) ==
    /\ r.err = "none"
    /\ r.ret = "this"
    /\ entries(r.m) = [items |-> arraySort(cmp, entries(m).items, 1, <<>>), status |-> "ok"]

\* C17: sort(cmp) returns the map itself, and entries() then yields the
\* previous entries in the order a stable sort under cmp puts them in.
C17_SortIsStableArraySort ==
    \A cmp \in Comparators \ {"none"} : sortedStably(M, sort(M, cmp), cmp)

\* Same size, and every key of a is in b with an equal value.
sameContents(a, b) ==
    /\ a.size = b.size
    /\ entries(a).status = "ok"
    /\ \A i \in 1..Len(entries(a).items) :
          /\ has(b, entries(a).items[i][1])
          /\ equals(entries(a).items[i][2], get(b, entries(a).items[i][1]))

\* What C18 says of r = a.equals(b) and q = b.equals(a).
equalsAsSpecified(a, b, r, q) ==
    /\ r.err = "none"
    /\ q.err = "none"
    /\ r.ret = sameContents(a, b)
    /\ r.ret = q.ret

\* C18: a.equals(b) is true iff a and b have the same size and every key of a
\* is in b with an equal value, whatever the insertion order and the capacity
\* of the two, and a.equals(b) = b.equals(a).
C18_EqualsIsContentEquality ==
    (slots[1].kind = "ObjectMap" /\ slots[2].kind = "ObjectMap") =>
        equalsAsSpecified(obj(1), obj(2), mapEquals(obj(1), obj(2)), mapEquals(obj(2), obj(1)))

\* The sets at ra and rb are what they were before the call that gave r.
operandsUnchanged(h, ra, rb, r) == r.h[ra] = h[ra] /\ r.h[rb] = h[rb]

unionAsSpecified(h, ra, rb, r) ==
    /\ r.err = "none"
    /\ keys(h[ra]).status = "ok" /\ keys(h[rb]).status = "ok"
    /\ keys(r.h[r.ref]) =
          [keys |-> keys(h[ra]).keys \o SelectSeq(keys(h[rb]).keys, LAMBDA x : ~has(h[ra], x)),
           status |-> "ok"]
    /\ \A k \in KeysOf(mode) : has(r.h[r.ref], k) <=> (has(h[ra], k) \/ has(h[rb], k))
    /\ r.ref # ra /\ r.ref # rb
    /\ operandsUnchanged(h, ra, rb, r)

\* C19: a.union(b) returns a new set whose members are those of a, of b or of
\* both; its keys() are the keys of a in a's order, then the members of b that
\* a lacks in the order of b.keys(); a and b are left as they were.
C19_UnionKeepsOrder ==
    \A s \in SlotIds, o \in SlotIds :
        (slots[s].kind = "ObjectSet" /\ slots[o].kind = "ObjectSet") =>
            unionAsSpecified(heap, slots[s].ref, slots[o].ref,
                             union(heap, slots[s].ref, slots[o].ref))

\* r is a.filter(x => b.has(x) = keep) as the claim has it: the subsequence
\* of a.keys() selected, in a new set.
filterAsSpecified(h, ra, rb, r, keep) ==
    /\ r.err = "none"
    /\ keys(h[ra]).status = "ok"
    /\ keys(r.h[r.ref]) =
          [keys |-> SelectSeq(keys(h[ra]).keys, LAMBDA x : has(h[rb], x) = keep),
           status |-> "ok"]
    /\ r.ref # ra /\ r.ref # rb
    /\ operandsUnchanged(h, ra, rb, r)

\* The members of i and d are disjoint and together those of a.
partitions(a, i, d) ==
    \A k \in KeysOf(mode) :
        /\ ~(has(i, k) /\ has(d, k))
        /\ has(a, k) <=> (has(i, k) \/ has(d, k))

intersectionAndDifference(h, ra, rb, i, d) ==
    /\ filterAsSpecified(h, ra, rb, i, TRUE)
    /\ filterAsSpecified(h, ra, rb, d, FALSE)
    /\ partitions(h[ra], i.h[i.ref], d.h[d.ref])

\* C20: the keys() of a.intersection(b) are the subsequence of a.keys() of
\* the x with b.has(x), those of a.difference(b) the subsequence of the x
\* without; the two results are disjoint and together hold exactly the
\* members of a; a and b are left as they were.
C20_IntersectionAndDifferenceSplit ==
    \A s \in SlotIds, o \in SlotIds :
        (slots[s].kind = "ObjectSet" /\ slots[o].kind = "ObjectSet") =>
            intersectionAndDifference(heap, slots[s].ref, slots[o].ref,
                                      intersection(heap, slots[s].ref, slots[o].ref),
                                      difference(heap, slots[s].ref, slots[o].ref))

symmetricDifferenceAsSpecified(h, ra, rb, r) ==
    /\ r.err = "none"
    /\ keys(h[ra]).status = "ok" /\ keys(h[rb]).status = "ok"
    /\ keys(r.h[r.ref]) =
          [keys |-> SelectSeq(keys(h[ra]).keys, LAMBDA x : ~has(h[rb], x))
                    \o SelectSeq(keys(h[rb]).keys, LAMBDA x : ~has(h[ra], x)),
           status |-> "ok"]
    /\ \A k \in KeysOf(mode) : has(r.h[r.ref], k) <=> (has(h[ra], k) # has(h[rb], k))
    /\ r.ref # ra /\ r.ref # rb
    /\ operandsUnchanged(h, ra, rb, r)

\* C21: a.symmetricDifference(b) returns a new set with exactly the members
\* that are in a or in b but not in both: the members of a that b lacks, in
\* a's order, then the members of b that a lacks, in b's order; a and b are
\* left as they were.
C21_SymmetricDifferenceKeepsOrder ==
    \A s \in SlotIds, o \in SlotIds :
        (slots[s].kind = "ObjectSet" /\ slots[o].kind = "ObjectSet") =>
            symmetricDifferenceAsSpecified(heap, slots[s].ref, slots[o].ref,
                symmetricDifference(heap, slots[s].ref, slots[o].ref))

\* What the three predicates must give for the sets a and b, read off the
\* members a.keys() and b.keys() yield.
subsetAsSpecified(a, b, r) ==
    /\ r.err = "none"
    /\ keys(a).status = "ok"
    /\ r.ret = (\A i \in 1..Len(keys(a).keys) : has(b, keys(a).keys[i]))

supersetAsSpecified(a, b, r) ==
    /\ r.err = "none"
    /\ keys(b).status = "ok"
    /\ r.ret = (\A i \in 1..Len(keys(b).keys) : has(a, keys(b).keys[i]))

disjointAsSpecified(a, b, r) ==
    /\ r.err = "none"
    /\ keys(a).status = "ok"
    /\ r.ret = (\A i \in 1..Len(keys(a).keys) : ~has(b, keys(a).keys[i]))

predicatesAsSpecified(a, b) ==
    /\ subsetAsSpecified(a, b, isSubsetOf(a, b))
    /\ supersetAsSpecified(a, b, isSupersetOf(a, b))
    /\ disjointAsSpecified(a, b, isDisjointFrom(a, b))
    /\ isSubsetOf(a, b).ret = isSupersetOf(b, a).ret
    /\ a.size # 0 => isDisjointFrom(a, a).ret = FALSE

\* C22: a.isSubsetOf(b) is true iff every member of a satisfies b.has,
\* a.isSupersetOf(b) iff a.has holds for every element of b.keys(),
\* a.isDisjointFrom(b) iff no member of a satisfies b.has; a.isSubsetOf(b)
\* is b.isSupersetOf(a), and a non-empty set is not disjoint from itself.
C22_SetPredicates ==
    \A s \in SlotIds, o \in SlotIds :
        (slots[s].kind = "ObjectSet" /\ slots[o].kind = "ObjectSet") =>
            predicatesAsSpecified(obj(s), obj(o))

\* C23: for values a and b among scalars, null, arrays and plain records, if
\* equals(a, b) is true then hash(a) = hash(b).
C23_EqualValuesHashEqual ==
    mode = "hash" =>
        (defaultEquals(args.a, args.b, args.same) => defaultHash(args.a) = defaultHash(args.b))

\* equals has answered true for two records that are not the same object and
\* list their properties in different orders.
C23_Witness ==
    /\ mode = "hash"
    /\ lastOp.op = "equals"
    /\ lastOp.ret = TRUE
    /\ ~args.same
    /\ args.a.t = "object"
    /\ args.a.names # args.b.names

\* The own property names of a record, as a set.
ownNames(r) == {r.names[i] : i \in 1..Len(r.names)}

\* a has a property whose value is undefined and that b lacks.
undefinedExtra(a, b) ==
    \E i \in 1..Len(a.names) :
        a.items[i] = Undefined /\ a.names[i] \notin ownNames(b)

recordsEqualAsSpecified(a, b) ==
    /\ defaultEquals(a, b, FALSE) =
          (/\ ownNames(a) = ownNames(b)
           /\ \A k \in ownNames(a) : defaultEquals(prop(a, k), prop(b, k), FALSE))
    /\ undefinedExtra(a, b) => (~defaultEquals(a, b, FALSE) /\ ~defaultEquals(b, a, FALSE))

\* C24: equals on two plain records is true iff they have the same set of
\* own property names and equal values for each name, whatever the order
\* the properties were inserted in; a record with a property whose value is
\* undefined is not equal to a record without that property, in either
\* argument order.
C24_RecordsEqualByOwnProperties ==
    (mode = "hash" /\ args.a.t = "object" /\ args.b.t = "object") =>
        recordsEqualAsSpecified(args.a, args.b)

\* equals has answered false for two records with as many properties, the
\* first having one of value undefined that the second lacks.
C24_Witness ==
    /\ mode = "hash"
    /\ lastOp.op = "equals"
    /\ lastOp.ret = FALSE
    /\ args.a.t = "object" /\ args.b.t = "object"
    /\ Len(args.a.names) = Len(args.b.names)
    /\ undefinedExtra(args.a, args.b)

\* r is what pop(k) gives on m: the value get(k) gives, and the map
\* delete(k) leaves.
popAsSpecified(m, k, r) ==
    /\ r.err = "none"
    /\ r.ret = get(m, k)
    /\ delete(m, k).err = "none"
    /\ r.m = delete(m, k).m

\* C25: pop(k) returns what get(k) would have returned just before the call,
\* and leaves the map in the state delete(k) would have produced: size, key
\* order, remaining entries and capacity.
C25_PopIsGetThenDelete ==
    mode = "map" => \A k \in KeysOf(mode) : popAsSpecified(M, k, pop(M, k))

\* r is what update(k, updater) gives on m.
updateAsSpecified(m, k, r) ==
    /\ r.err = "none"
    /\ r.ret = "this"
    /\ r.m = set(m, k, updater(get(m, k), k)).m
    /\ get(r.m, k) = updater(get(m, k), k)
    /\ keys(m).status = "ok"
    /\ has(m, k) => (keys(r.m) = keys(m) /\ r.m.size = m.size)
    /\ ~has(m, k) =>
          /\ keys(r.m) = [keys |-> Append(keys(m).keys, k), status |-> "ok"]
          /\ r.m.size = m.size + 1

\* C26: update(k, f) calls f with (get(k), k), get(k) being undefined for an
\* absent key, and leaves the map as set(k, f(get(k), k)) would: an existing
\* key keeps its position in keys() and the size, an absent key is appended
\* at the end and the size grows by 1; update returns the same map.
C26_UpdateIsSetOfUpdater ==
    mode = "map" => \A k \in KeysOf(mode) : updateAsSpecified(M, k, update(M, k))

\* r, [h, ref, err], is a new map with the load factor of the map at ra, which
\* is left as it was.
derivedFrom(h, ra, r) ==
    /\ r.err = "none"
    /\ r.ref # ra
    /\ r.h[r.ref].lfNum = h[ra].lfNum /\ r.h[r.ref].lfDen = h[ra].lfDen
    /\ r.h[ra] = h[ra]

mapFilterAsSpecified(h, ra, p, r) ==
    /\ derivedFrom(h, ra, r)
    /\ entries(h[ra]).status = "ok"
    /\ entries(r.h[r.ref]) =
          [items |-> SelectSeq(entries(h[ra]).items, LAMBDA x : satisfies(p, x[2], x[1])),
           status |-> "ok"]

mapMapAsSpecified(h, ra, r) ==
    /\ derivedFrom(h, ra, r)
    /\ keys(h[ra]).status = "ok"
    /\ keys(r.h[r.ref]) = keys(h[ra])
    /\ \A i \in 1..Len(keys(h[ra]).keys) :
          get(r.h[r.ref], keys(h[ra]).keys[i])
              = updater(get(h[ra], keys(h[ra]).keys[i]), keys(h[ra]).keys[i])

\* C27: m.filter(p) returns a new map whose entries() is the subsequence of
\* m.entries() whose (value, key) satisfy p; m.map(t) returns a new map with
\* the keys() of m and the value t(value, key) for each key; both have m's
\* load factor, and m itself is unchanged.
C27_FilterAndMapDeriveNewMaps ==
    \A s \in SlotIds :
        slots[s].kind = "ObjectMap" =>
            /\ \A p \in Predicates :
                  mapFilterAsSpecified(heap, slots[s].ref, p,
                      allocated(heap, filterWith(obj(s), entries(obj(s)), p)))
            /\ mapMapAsSpecified(heap, slots[s].ref,
                      allocated(heap, map(obj(s), entries(obj(s)))))

\* Every node of the bucket array of m holds a value equal to its key.
valuesAreKeys(m) ==
    \A b \in DOMAIN m.buckets : \A i \in 1..Len(m.buckets[b]) :
        equals(m.buckets[b][i].key, m.buckets[b][i].value)

\* keys() and values() of m complete and are one sequence up to equals, and
\* entries() is the sequence of the pairs of them.
iteratorsAgree(m) ==
    /\ keys(m).status = "ok" /\ values(m).status = "ok" /\ entries(m).status = "ok"
    /\ Len(values(m).items) = Len(keys(m).keys)
    /\ \A i \in 1..Len(keys(m).keys) : equals(keys(m).keys[i], values(m).items[i])
    /\ entries(m).items = [i \in 1..Len(keys(m).keys) |-> <<keys(m).keys[i], values(m).items[i]>>]

\* C28: in every state of an ObjectSet reachable by add, delete, clear and
\* sort, the underlying map stores for every key a value equal, by the set's
\* equals, to that key, so keys() and values() yield the same sequence and
\* entries() yields [v, v] pairs.
C28_SetStoresValueAsKey ==
    \A s \in SlotIds :
        (mode = "oneset" /\ slots[s].kind = "ObjectSet") =>
            valuesAreKeys(obj(s)) /\ iteratorsAgree(obj(s))

\* C29: in every state reachable by set, delete, clear and sort on an
\* ObjectMap, states reached through a resize included, size equals the
\* total number of entries stored across the buckets of the bucket array.
C29_SizeIsStoredCount ==
    mode = "map" => M.size = stored(M)

\* first and last of m name stored entries, the ends of the chain.
endsAreStored(m) ==
    /\ m.first # null /\ m.last # null
    /\ hasNode(m, m.first) /\ hasNode(m, m.last)
    /\ getNode(m, m.first).prev = null
    /\ getNode(m, m.last).next = null

\* C30: in every reachable ObjectMap state, first and last are both null
\* exactly when size = 0, and otherwise both are keys of entries stored in
\* the bucket array, first's entry with prev = null and last's entry with
\* next = null.
C30_FirstAndLastAreEnds ==
    mode = "map" =>
        /\ (M.first = null /\ M.last = null) <=> M.size = 0
        /\ M.size # 0 => endsAreStored(M)

\* The walk w, [keys, status], of m from first along next ends at null after
\* size steps, the last of them at last, and visits each stored entry once.
walkIsWholeChain(m, w) ==
    /\ w.status = "ok"
    /\ Len(w.keys) = m.size
    /\ m.size = stored(m)
    /\ \A i, j \in 1..Len(w.keys) : i # j => ~equals(w.keys[i], w.keys[j])
    /\ m.size # 0 => w.keys[Len(w.keys)] = m.last

\* C31: in every reachable ObjectMap state, walking the next links from first
\* terminates after exactly size steps at last and visits every stored entry
\* exactly once (no cycle, no key missing from the buckets), so keys(),
\* values(), entries() and forEach terminate.
C31_ChainWalkTerminates ==
    mode = "map" => walkIsWholeChain(M, nodes(M))

\* The keys of the entries stored in the bucket array of m.
storedKeys(m) ==
    UNION {{m.buckets[b][i].key : i \in 1..Len(m.buckets[b])} : b \in DOMAIN m.buckets}

\* r is the result of set(k, v) on m, which has no key equal to k.
insertResizes(m, k, r) ==
    /\ r.err = "none"
    /\ r.m.capacity = IF (m.size + 1) * m.lfDen > m.capacity * m.lfNum
                      THEN 2 * m.capacity ELSE m.capacity
    /\ r.m.capacity # m.capacity => storedKeys(r.m) = storedKeys(m) \cup {k}

\* C32: a set that inserts a new key doubles capacity exactly once if, after
\* the size increment, size / capacity > loadFactor, and otherwise leaves it
\* unchanged; after such a resize every previously stored entry and the new
\* entry are present in the new bucket array; set on an existing key, delete
\* and sort never change capacity.
C32_ResizeDoublesAndKeepsEntries ==
    mode = "map" =>
        /\ \A k \in KeysOf(mode), v \in Vals :
              IF has(M, k) THEN set(M, k, v).m.capacity = M.capacity
              ELSE insertResizes(M, k, set(M, k, v))
        /\ \A k \in KeysOf(mode) : delete(M, k).m.capacity = M.capacity
        /\ \A cmp \in Comparators : sort(M, cmp).m.capacity = M.capacity

\* The keys and values of the entries of a bucket, in the bucket's order.
placed(bucket) == [i \in 1..Len(bucket) |-> <<bucket[i].key, bucket[i].value>>]

\* first, last and the prev and next of every entry of m describe the
\* sequence ks of keys.
chainIs(m, ks) ==
    /\ m.first = ks[1]
    /\ m.last = ks[Len(ks)]
    /\ \A i \in 1..Len(ks) :
          /\ hasNode(m, ks[i])
          /\ getNode(m, ks[i]).prev = (IF i = 1 THEN null ELSE ks[i - 1])
          /\ getNode(m, ks[i]).next = (IF i = Len(ks) THEN null ELSE ks[i + 1])

\* r is the result of a sort of m that gives the entries in the order sorted.
sortOnlyRelinks(m, r, sorted) ==
    /\ r.err = "none"
    /\ r.m.size = m.size
    /\ r.m.capacity = m.capacity
    /\ \A b \in DOMAIN m.buckets : placed(r.m.buckets[b]) = placed(m.buckets[b])
    /\ Len(sorted) = m.size
    /\ chainIs(r.m, [i \in 1..Len(sorted) |-> sorted[i][1]])

\* C33: sort on a non-empty ObjectMap changes only the order chain: size,
\* capacity, the bucket in which each entry is stored, the set of keys and
\* the value of each key are unchanged, and afterwards first, last and every
\* entry's prev and next describe exactly the sorted sequence.
C33_SortChangesOnlyTheChain ==
    (mode = "map" /\ M.size # 0) =>
        \A cmp \in Comparators :
            sortOnlyRelinks(M, sort(M, cmp), arraySort(cmp, entries(M).items, 1, <<>>))

\* r is the result of a sort of the empty map m: no error, the map itself,
\* still empty.
sortOfEmpty(m, r) ==
    /\ r.err = "none"
    /\ r.ret = "this"
    /\ r.m.size = 0 /\ stored(r.m) = 0
    /\ r.m.first = null /\ r.m.last = null

\* C34: sort() on an empty ObjectMap (freshly constructed, or emptied by
\* delete or clear), with or without a comparator, completes without error,
\* returns the same map, and leaves it empty with first = last = null.
C34_SortOfEmptyMapCompletes ==
    (mode = "map" /\ M.size = 0) =>
        \A cmp \in Comparators : sortOfEmpty(M, sort(M, cmp))

\* The entries stored in the bucket array of m.
storedNodes(m) ==
    UNION {{m.buckets[b][i] : i \in 1..Len(m.buckets[b])} : b \in DOMAIN m.buckets}

\* The links of the entry e of m are answered by the entries they name.
linksAnswered(m, e) ==
    /\ e.next # null => (hasNode(m, e.next) /\ getNode(m, e.next).prev = e.key)
    /\ e.prev # null => (hasNode(m, e.prev) /\ getNode(m, e.prev).next = e.key)

\* C35: in every reachable ObjectMap state the order chain is a consistent
\* doubly-linked list: for every stored entry e, if e.next = k is not null
\* the entry stored for k has prev equal to e.key, and if e.prev = j is not
\* null the entry stored for j has next equal to e.key.
C35_ChainIsDoublyLinked ==
    mode = "map" => \A e \in storedNodes(M) : linksAnswered(M, e)

\* Every entry of m is in the bucket of its key, and no entry has a key equal
\* to the key of another.
placedByHash(m) ==
    /\ \A b \in DOMAIN m.buckets : \A i \in 1..Len(m.buckets[b]) :
          hash(m.buckets[b][i].key, m.capacity) = b
    /\ \A e, f \in storedNodes(m) : equals(e.key, f.key) => e = f
    /\ \A b \in DOMAIN m.buckets : \A i, j \in 1..Len(m.buckets[b]) :
          equals(m.buckets[b][i].key, m.buckets[b][j].key) => i = j

\* C36: in every reachable ObjectMap state, the hash function being
\* consistent with equals, every stored entry lies in the bucket whose index
\* is hash(entry.key) % capacity for the current capacity, and no two stored
\* entries have keys that are equal under equals.
C36_EntriesPlacedByHash ==
    mode = "map" => placedByHash(M)

\* Two entries in different buckets of a map that was resized.
C36_Witness ==
    /\ mode = "map"
    /\ M.capacity = 4
    /\ stored(M) >= 2
    /\ \E b \in DOMAIN M.buckets : Len(M.buckets[b]) = 1 /\ b # 0

\* The capacities the index is computed for: small ones and the default.
IndexCapacities == {1, 2, 3, DefaultCapacity}

\* C37: for every key the bucket index computed by ObjectMap.hash(key) is an
\* integer in 0 .. capacity - 1, also for the keys whose hash is negative
\* (the default hash of an array or a record is a signed 32-bit value).
C37_BucketIndexInRange ==
    mode = "hash" =>
        \A c \in IndexCapacities : defaultIndex(args.a, c) \in 0..(c - 1)

\* The map m holds null as it holds the other keys set, a being the keys set
\* so far in the order of their first set.
nullIsAKey(m, a) ==
    /\ has(m, null)
    /\ keys(m) = [keys |-> a, status |-> "ok"]
    /\ Len(a) = m.size

\* C38: the key null behaves like any other key: after set(null, v) in any
\* position of a sequence of set calls, has(null) is true and keys() yields
\* exactly size keys, null and every key set before and after it, in
\* insertion order. Stated for the maps every counted entry of which is
\* stored, which leaves out those a resizing set has dropped an entry of.
C38_NullIsAnOrdinaryKey ==
    (/\ mode = "nullkey"
     /\ M.size = stored(M)
     /\ \E i \in 1..Len(abs) : abs[i][1] = null)
        => nullIsAKey(M, absKeys(abs))

\* s is the result of set(k, v) on m and d the result of delete(k) after it:
\* both complete, and the contents of m are back.
restores(m, s, d) ==
    /\ s.err = "none" /\ d.err = "none"
    /\ d.m.size = m.size
    /\ entries(d.m) = entries(m)
    /\ \A j \in KeysOf(mode) : has(d.m, j) = has(m, j) /\ get(d.m, j) = get(m, j)

\* set(k, v), then delete(k), on m.
setThenDelete(m, k, s) == restores(m, s, delete(s.m, k))

\* C39: for every reachable ObjectMap m and every key k not present in m,
\* set(k, v) followed by delete(k) restores m's observable contents: size,
\* the entries() sequence and get and has for every key are as before the
\* two calls (only capacity may have grown).
C39_SetThenDeleteRestores ==
    mode = "map" =>
        \A k \in KeysOf(mode), v \in Vals :
            ~has(M, k) => setThenDelete(M, k, set(M, k, v))

====
